---- MODULE Spec2Model ----
(***************************************************************************)
(* tiny-struct: a declarative binary-layout codec.                         *)
(*                                                                         *)
(* A struct definition is an ordered list of typed fields; struct()        *)
(* computes the byte offsets, from() decodes a buffer into a record and    *)
(* to() encodes a record into a fresh buffer.  Records carry $struct,      *)
(* $toBuffer and $clone.                                                   *)
(*                                                                         *)
(* Buffers are sequences of bytes; byte offset o is index o + 1.           *)
(* JavaScript values are records [t, neg, d]:                              *)
(*   number / bigint : sign and magnitude, d = base-256 digits, least      *)
(*                     significant first, no trailing zero digit           *)
(*   string          : d = the code points of the text                     *)
(*   Uint8Array      : d = <<address of its ArrayBuffer in the heap>>      *)
(*   bytes           : d = the elements of a caller's Uint8Array literal   *)
(*   undefined, null : d = <<>>                                            *)
(***************************************************************************)
EXTENDS Integers, Sequences, FiniteSets, TLC

VARIABLES defs, heap, recs, ret

vars == <<defs, heap, recs, ret>>

---------------------------------------------------------------------------
(* Sequence helpers *)

Take(s, n) == IF n <= 0 THEN <<>> ELSE SubSeq(s, 1, IF n < Len(s) THEN n ELSE Len(s))

Drop(s, n) == IF n <= 0 THEN s ELSE SubSeq(s, n + 1, Len(s))

Min(a, b) == IF a < b THEN a ELSE b

Zeros(n) == [i \in 1..n |-> 0]

RECURSIVE Reverse(_)
Reverse(s) == IF s = <<>> THEN <<>> ELSE Reverse(Tail(s)) \o <<Head(s)>>

RECURSIVE SeqsUpTo(_, _)
SeqsUpTo(S, n) ==
  IF n = 0 THEN {<<>>}
  ELSE LET shorter == SeqsUpTo(S, n - 1)
       IN  shorter \cup {Append(s, x) : s \in {t \in shorter : Len(t) = n - 1}, x \in S}

---------------------------------------------------------------------------
(* JavaScript values *)

Undefined == [t |-> "undefined", neg |-> FALSE, d |-> <<>>]

Null == [t |-> "null", neg |-> FALSE, d |-> <<>>]

Str(cps) == [t |-> "string", neg |-> FALSE, d |-> cps]

ByteLit(bs) == [t |-> "bytes", neg |-> FALSE, d |-> bs]

U8Ref(addr) == [t |-> "Uint8Array", neg |-> FALSE, d |-> <<addr>>]

RECURSIVE Canon(_)
Canon(ds) ==
  IF ds = <<>> THEN <<>>
  ELSE IF ds[Len(ds)] = 0 THEN Canon(SubSeq(ds, 1, Len(ds) - 1)) ELSE ds

RECURSIVE NatDigits(_)
NatDigits(n) == IF n = 0 THEN <<>> ELSE <<n % 256>> \o NatDigits(n \div 256)

Numeric(type, neg, ds) ==
  LET c == Canon(ds) IN [t |-> type, neg |-> (neg /\ c # <<>>), d |-> c]

Num(i) == Numeric("number", i < 0, NatDigits(IF i < 0 THEN 0 - i ELSE i))

Big(i) == Numeric("bigint", i < 0, NatDigits(IF i < 0 THEN 0 - i ELSE i))

(* two's complement negation of w little-endian bytes, modulo 2^(8w) *)
RECURSIVE AddOne(_)
AddOne(bs) ==
  IF bs = <<>> THEN <<>>
  ELSE IF Head(bs) = 255 THEN <<0>> \o AddOne(Tail(bs))
  ELSE <<Head(bs) + 1>> \o Tail(bs)

Negate(bs) == AddOne([i \in 1..Len(bs) |-> 255 - bs[i]])

(* NumericToRawBytes: the value modulo 2^(8w), least significant byte first *)
ToRawLE(v, w) ==
  LET mag == [i \in 1..w |-> IF i <= Len(v.d) THEN v.d[i] ELSE 0]
  IN  IF v.neg THEN Negate(mag) ELSE mag

(* RawBytesToNumeric of little-endian bytes *)
FromRawLE(bs, signed, type) ==
  IF signed /\ bs # <<>> /\ bs[Len(bs)] >= 128
  THEN Numeric(type, TRUE, Negate(bs))
  ELSE Numeric(type, FALSE, bs)

---------------------------------------------------------------------------
(* TextEncoder / TextDecoder (UTF-8) *)

ReplacementChar == 65533

Utf8(cp) ==
  IF cp < 128 THEN <<cp>>
  ELSE IF cp < 2048 THEN <<192 + (cp \div 64), 128 + (cp % 64)>>
  ELSE IF cp \in 55296..57343 THEN <<239, 191, 189>>
  ELSE IF cp < 65536
       THEN <<224 + (cp \div 4096), 128 + ((cp \div 64) % 64), 128 + (cp % 64)>>
  ELSE <<240 + (cp \div 262144), 128 + ((cp \div 4096) % 64),
         128 + ((cp \div 64) % 64), 128 + (cp % 64)>>

(* new TextEncoder().encode(value); an undefined argument takes the default "" *)
RECURSIVE EncodeCps(_)
EncodeCps(cps) == IF cps = <<>> THEN <<>> ELSE Utf8(Head(cps)) \o EncodeCps(Tail(cps))

TextEncode(value) == IF value.t = "string" THEN EncodeCps(value.d) ELSE <<>>

(* number of continuation bytes b[i+1..] that the decoder accepts after lead b[i] *)
RECURSIVE Continuations(_, _, _, _, _)
Continuations(b, i, k, need, lead) ==
  IF k = need \/ i + k + 1 > Len(b) THEN k
  ELSE LET lo == IF k = 0 /\ lead = 224 THEN 160
                 ELSE IF k = 0 /\ lead = 240 THEN 144 ELSE 128
           hi == IF k = 0 /\ lead = 237 THEN 159
                 ELSE IF k = 0 /\ lead = 244 THEN 143 ELSE 191
       IN  IF b[i + k + 1] \in lo..hi THEN Continuations(b, i, k + 1, need, lead) ELSE k

RECURSIVE DecodeFrom(_, _)
DecodeFrom(b, i) ==
  IF i > Len(b) THEN <<>>
  ELSE LET c == b[i]
           need == IF c \in 194..223 THEN 1
                   ELSE IF c \in 224..239 THEN 2
                   ELSE IF c \in 240..244 THEN 3 ELSE 0
       IN  IF c < 128 THEN <<c>> \o DecodeFrom(b, i + 1)
           ELSE IF need = 0 THEN <<ReplacementChar>> \o DecodeFrom(b, i + 1)
           ELSE LET k == Continuations(b, i, 0, need, c)
                IN  IF k < need THEN <<ReplacementChar>> \o DecodeFrom(b, i + k + 1)
                    ELSE LET cp == IF need = 1 THEN (c - 192) * 64 + (b[i + 1] - 128)
                                   ELSE IF need = 2
                                        THEN (c - 224) * 4096 + (b[i + 1] - 128) * 64
                                             + (b[i + 2] - 128)
                                   ELSE (c - 240) * 262144 + (b[i + 1] - 128) * 4096
                                        + (b[i + 2] - 128) * 64 + (b[i + 3] - 128)
                         IN  <<cp>> \o DecodeFrom(b, i + need + 1)

(* new TextDecoder().decode(bytes): utf-8, fatal = false, ignoreBOM = false *)
TextDecode(b) ==
  IF Len(b) >= 3 /\ b[1] = 239 /\ b[2] = 187 /\ b[3] = 191
  THEN Str(DecodeFrom(b, 4))
  ELSE Str(DecodeFrom(b, 1))

---------------------------------------------------------------------------
(* DataView over an ArrayBuffer: dv = [ab, byteOffset, byteLength]         *)
(* Results of fallible steps are [ok, err, v, ab].                         *)

Ok(v, ab) == [ok |-> TRUE, err |-> "", v |-> v, ab |-> ab]

Throw(e) == [ok |-> FALSE, err |-> e, v |-> Undefined, ab |-> <<>>]

DataView(ab, byteOffset, byteLength) ==
  [ab |-> ab, byteOffset |-> byteOffset, byteLength |-> byteLength]

InView(dv, offset, w) == offset >= 0 /\ offset + w <= dv.byteLength

ViewBytes(dv, offset, w) == [i \in 1..w |-> dv.ab[dv.byteOffset + offset + i]]

StoreBytes(dv, offset, bs) ==
  [i \in 1..Len(dv.ab) |->
     IF i - (dv.byteOffset + offset) \in 1..Len(bs)
     THEN bs[i - (dv.byteOffset + offset)] ELSE dv.ab[i]]

(* DataView.prototype.getUint8 .. getBigInt64 *)
GetViewValue(dv, offset, w, littleEndian, signed, type) ==
  IF ~InView(dv, offset, w) THEN Throw("RangeError")
  ELSE LET raw == ViewBytes(dv, offset, w)
       IN  Ok(FromRawLE(IF littleEndian THEN raw ELSE Reverse(raw), signed, type), dv.ab)

(* DataView.prototype.setUint8 .. setBigInt64: ToIndex, then ToNumber or   *)
(* ToBigInt of the value, then the bounds check                            *)
SetViewValue(dv, offset, w, value, littleEndian, type) ==
  IF offset < 0 THEN Throw("RangeError")
  ELSE IF type = "number" /\ value.t = "bigint" THEN Throw("TypeError")
  ELSE IF type = "bigint" /\ value.t # "bigint" THEN Throw("TypeError")
  ELSE IF ~InView(dv, offset, w) THEN Throw("RangeError")
  ELSE LET n == IF value.t \in {"number", "bigint"} THEN value ELSE Num(0)
           raw == ToRawLE(n, w)
       IN  Ok(Undefined, StoreBytes(dv, offset, IF littleEndian THEN raw ELSE Reverse(raw)))

(* a run of setUint8(offset + i, bs[i]) calls, i = 0 .. Len(bs) - 1 *)
SetBytes(dv, offset, bs) ==
  IF bs = <<>> THEN Ok(Undefined, dv.ab)
  ELSE IF ~InView(dv, offset, Len(bs)) THEN Throw("RangeError")
  ELSE Ok(Undefined, StoreBytes(dv, offset, bs))

---------------------------------------------------------------------------
(* Field types: [kind, size]; parse and write by kind *)

bytes(length) == [kind |-> "bytes", size |-> length]

uint8 == [kind |-> "uint8", size |-> 1]

uint16 == [kind |-> "uint16", size |-> 2]

uint32 == [kind |-> "uint32", size |-> 4]

uint64 == [kind |-> "uint64", size |-> 8]

int8 == [kind |-> "int8", size |-> 1]

int16 == [kind |-> "int16", size |-> 2]

int32 == [kind |-> "int32", size |-> 4]

int64 == [kind |-> "int64", size |-> 8]

cstring(maxLength) == [kind |-> "cstring", size |-> maxLength]

string(length) == [kind |-> "string", size |-> length]

(* custom(size, parse, write) with the caller's codec of a reserved slot:  *)
(* parse = () => null, write = () => {}                                    *)
custom(size) == [kind |-> "custom", size |-> size]

IntKinds == {"uint8", "uint16", "uint32", "uint64", "int8", "int16", "int32", "int64"}

Signed(kind) == kind \in {"int8", "int16", "int32", "int64"}

NumType(kind) == IF kind \in {"uint64", "int64"} THEN "bigint" ELSE "number"

(* value[i] of a Uint8Array value, i = 0 .. ; undefined past its end *)
Elements(value, h) == IF value.t = "Uint8Array" THEN h[value.d[1]] ELSE value.d

bytes_parse(length, buffer, offset) ==
  IF length < 0 THEN Throw("RangeError")
  ELSE IF length > 0 /\ ~InView(buffer, offset, length) THEN Throw("RangeError")
  ELSE Ok(ByteLit(ViewBytes(buffer, offset, length)), buffer.ab)

bytes_write(length, buffer, offset, value, h) ==
  IF length <= 0 THEN Ok(Undefined, buffer.ab)
  ELSE IF value.t \in {"undefined", "null"} THEN Throw("TypeError")
  ELSE LET el == Elements(value, h)
       IN  SetBytes(buffer, offset, [i \in 1..length |-> IF i <= Len(el) THEN el[i] ELSE 0])

(* the bytes cstring.parse keeps: those before the first zero byte, or     *)
(* RangeError when the scan leaves the view before it meets one            *)
RECURSIVE cstring_scan(_, _, _, _)
cstring_scan(maxLength, buffer, offset, i) ==
  IF i >= maxLength THEN Ok(ByteLit(<<>>), buffer.ab)
  ELSE IF ~InView(buffer, offset + i, 1) THEN Throw("RangeError")
  ELSE LET byte == ViewBytes(buffer, offset + i, 1)[1]
       IN  IF byte = 0 THEN Ok(ByteLit(<<>>), buffer.ab)
           ELSE LET rest == cstring_scan(maxLength, buffer, offset, i + 1)
                IN  IF rest.ok THEN Ok(ByteLit(<<byte>> \o rest.v.d), buffer.ab) ELSE rest

cstring_parse(maxLength, buffer, offset) ==
  IF maxLength < 0 THEN Throw("RangeError")
  ELSE LET scanned == cstring_scan(maxLength, buffer, offset, 0)
       IN  IF scanned.ok THEN Ok(TextDecode(scanned.v.d), buffer.ab) ELSE scanned

(* the text may fill the whole slot: no room is kept for the terminator *)
cstring_write_full(maxLength, buffer, offset, value) ==
  LET encoded == TextEncode(value)
      length == Min(Len(encoded), maxLength)
      text == SetBytes(buffer, offset, Take(encoded, length))
  IN  IF ~text.ok \/ length = maxLength THEN text
      ELSE SetBytes(DataView(text.ab, buffer.byteOffset, buffer.byteLength),
                    offset + length, <<0>>)

cstring_write(maxLength, buffer, offset, value) ==
  LET encoded == TextEncode(value)
      length == Min(Len(encoded), maxLength - 1)
      text == SetBytes(buffer, offset, Take(encoded, length))
  IN  IF ~text.ok THEN text
      ELSE SetBytes(DataView(text.ab, buffer.byteOffset, buffer.byteLength),
                    offset + length, <<0>>)

(* new Uint8Array(buffer.buffer, offset, length): the offset is taken from *)
(* the start of the underlying ArrayBuffer                                 *)
string_parse(length, buffer, offset) ==
  IF offset < 0 \/ length < 0 \/ offset + length > Len(buffer.ab) THEN Throw("RangeError")
  ELSE Ok(TextDecode(SubSeq(buffer.ab, offset + 1, offset + length)), buffer.ab)

string_write(length, buffer, offset, value) ==
  LET encoded == TextEncode(value)
      bytesToWrite == Min(Len(encoded), length)
  IN  IF length <= 0 THEN Ok(Undefined, buffer.ab)
      ELSE SetBytes(buffer, offset, Take(encoded, bytesToWrite) \o Zeros(length - bytesToWrite))

(* fieldType.parse(dataView, offset, littleEndian) *)
parse(fieldType, buffer, offset, littleEndian) ==
  CASE fieldType.kind = "bytes" -> bytes_parse(fieldType.size, buffer, offset)
    [] fieldType.kind = "cstring" -> cstring_parse(fieldType.size, buffer, offset)
    [] fieldType.kind = "string" -> string_parse(fieldType.size, buffer, offset)
    [] fieldType.kind = "custom" -> Ok(Null, buffer.ab)
    [] OTHER -> GetViewValue(buffer, offset, fieldType.size, littleEndian,
                             Signed(fieldType.kind), NumType(fieldType.kind))

(* the integer writers drop the littleEndian argument *)
write_bigEndian(fieldType, buffer, offset, value, littleEndian, h) ==
  CASE fieldType.kind = "bytes" -> bytes_write(fieldType.size, buffer, offset, value, h)
    [] fieldType.kind = "cstring" -> cstring_write(fieldType.size, buffer, offset, value)
    [] fieldType.kind = "string" -> string_write(fieldType.size, buffer, offset, value)
    [] fieldType.kind = "custom" -> Ok(Undefined, buffer.ab)
    [] OTHER -> SetViewValue(buffer, offset, fieldType.size, value, FALSE,
                             NumType(fieldType.kind))

(* fieldType.write(dataView, offset, value, littleEndian) *)
write(fieldType, buffer, offset, value, littleEndian, h) ==
  CASE fieldType.kind = "bytes" -> bytes_write(fieldType.size, buffer, offset, value, h)
    [] fieldType.kind = "cstring" -> cstring_write(fieldType.size, buffer, offset, value)
    [] fieldType.kind = "string" -> string_write(fieldType.size, buffer, offset, value)
    [] fieldType.kind = "custom" -> Ok(Undefined, buffer.ab)
    [] OTHER -> SetViewValue(buffer, offset, fieldType.size, value, littleEndian,
                             NumType(fieldType.kind))

---------------------------------------------------------------------------
(* struct(name, fields, options)                                           *)
(*                                                                         *)
(* fields is the sequence Object.entries(fields) of [name, type] entries   *)
(* with distinct names; options is <<>> (no littleEndian key) or           *)
(* <<b>> for { littleEndian: b }.                                          *)

NoProps == [n \in {} |-> Undefined]

Prop(values, name) == IF name \in DOMAIN values THEN values[name] ELSE Undefined

RECURSIVE layout(_, _, _, _)
layout(fields, i, totalSize, fieldOffsets) ==
  IF i > Len(fields)
  THEN [totalSize |-> totalSize, fieldOffsets |-> fieldOffsets]
  ELSE layout(fields, i + 1, totalSize + fields[i].type.size,
              [n \in DOMAIN fieldOffsets \cup {fields[i].name} |->
                 IF n = fields[i].name THEN totalSize ELSE fieldOffsets[n]])

(* the definition: the properties name, size and fields, fields being the *)
(* caller's own mapping, and the variables totalSize, fieldOffsets and     *)
(* littleEndian that from and to close over                                *)
struct(name, fields, options) ==
  LET littleEndian == IF options = <<>> THEN FALSE ELSE options[1]
      scan == layout(fields, 1, 0, [n \in {} |-> 0])
  IN  [name |-> name, size |-> scan.totalSize, fields |-> fields,
       totalSize |-> scan.totalSize, fieldOffsets |-> scan.fieldOffsets,
       littleEndian |-> littleEndian]

(* structDef.from: the loop over the fields.  calls counts the parse       *)
(* functions invoked, the throwing one included.                           *)
RECURSIVE parseFields(_, _, _, _, _)
parseFields(def, dataView, offset, i, result) ==
  IF i > Len(def.fields)
  THEN [ok |-> TRUE, err |-> "", values |-> result, calls |-> i - 1]
  ELSE LET fieldName == def.fields[i].name
           fieldOffset == def.fieldOffsets[fieldName]
           parsed == parse(def.fields[i].type, dataView, offset + fieldOffset,
                           def.littleEndian)
       IN  IF ~parsed.ok
           THEN [ok |-> FALSE, err |-> parsed.err, values |-> NoProps, calls |-> i]
           ELSE parseFields(def, dataView, offset, i + 1,
                            [n \in DOMAIN result \cup {fieldName} |->
                               IF n = fieldName THEN parsed.v ELSE result[n]])

(* buffer is [ab, byteOffset, byteLength]: an ArrayBuffer has byteOffset 0 *)
(* and byteLength Len(ab), a Uint8Array its own window                     *)
from(def, buffer, offset) ==
  parseFields(def, DataView(buffer.ab, buffer.byteOffset, buffer.byteLength),
              offset, 1, NoProps)

(* structDef.to: the loop over the fields *)
RECURSIVE writeFields(_, _, _, _, _)
writeFields(def, ab, values, i, h) ==
  IF i > Len(def.fields)
  THEN [ok |-> TRUE, err |-> "", ab |-> ab, calls |-> i - 1]
  ELSE LET fieldName == def.fields[i].name
           fieldOffset == def.fieldOffsets[fieldName]
           value == Prop(values, fieldName)
           written == write(def.fields[i].type, DataView(ab, 0, Len(ab)), fieldOffset,
                            value, def.littleEndian, h)
       IN  IF ~written.ok
           THEN [ok |-> FALSE, err |-> written.err, ab |-> <<>>, calls |-> i]
           ELSE writeFields(def, written.ab, values, i + 1, h)

to(def, values, h) ==
  IF def.totalSize < 0 THEN [ok |-> FALSE, err |-> "RangeError", ab |-> <<>>, calls |-> 0]
  ELSE writeFields(def, Zeros(def.totalSize), values, 1, h)

---------------------------------------------------------------------------
(* State                                                                   *)
(*   defs : the struct definitions constructed so far                      *)
(*   heap : the ArrayBuffers allocated so far, by address; a cell holds    *)
(*          its bytes and, as history, who allocated it (by) and for a     *)
(*          buffer returned by to the definition and the record encoded    *)
(*   recs : the records returned by from and $clone: $struct, the          *)
(*          definition the $toBuffer closure captured, the own enumerable  *)
(*          properties and, as history, the definition whose from made the *)
(*          record (origin) and the record it was cloned from (cloneOf, 0  *)
(*          for a record made by from)                                     *)
(*   ret  : the last call, its arguments and its outcome                   *)

Cell(bs, by, d, values) == [bytes |-> bs, by |-> by, def |-> d, values |-> values]

Contents(h) == [a \in 1..Len(h) |-> h[a].bytes]

NoCall ==
  [op |-> "none", ok |-> TRUE, err |-> "", def |-> 0, rec |-> 0, src |-> 0, buf |-> 0,
   offset |-> 0, byteOffset |-> 0, byteLength |-> 0, calls |-> 0, field |-> "",
   options |-> <<>>, values |-> NoProps, ab |-> <<>>]

Init ==
  /\ defs = <<>>
  /\ heap = <<>>
  /\ recs = <<>>
  /\ ret = NoCall

(* const S = struct(name, fields, options) *)
Struct(name, fields, options) ==
  /\ defs' = Append(defs, struct(name, fields, options))
  /\ ret' = [NoCall EXCEPT !.op = "struct", !.def = Len(defs) + 1, !.options = options]
  /\ UNCHANGED <<heap, recs>>

(* the caller's own buffer: new ArrayBuffer(n) filled through a view *)
Alloc(bs) ==
  /\ heap' = Append(heap, Cell(bs, "caller", 0, NoProps))
  /\ ret' = [NoCall EXCEPT !.op = "alloc", !.buf = Len(heap) + 1]
  /\ UNCHANGED <<defs, recs>>

(* S.to(values) *)
To(d, values) ==
  LET r == to(defs[d], values, Contents(heap))
      call == [NoCall EXCEPT !.op = "to", !.def = d, !.values = values, !.calls = r.calls]
  IN  /\ IF r.ok
         THEN /\ heap' = Append(heap, Cell(r.ab, "to", d, values))
              /\ ret' = [call EXCEPT !.buf = Len(heap) + 1]
         ELSE /\ heap' = heap
              /\ ret' = [call EXCEPT !.ok = FALSE, !.err = r.err]
      /\ UNCHANGED <<defs, recs>>

(* the Uint8Array values of fresh records are one scratch array, filled   *)
(* anew by every from                                                      *)
own_pooled(fields, i, values, h, by) ==
  LET names == {n \in DOMAIN values : values[n].t = "bytes"}
      pool == {a \in DOMAIN h : h[a].by = by}
      p == IF pool = {} THEN Len(h) + 1 ELSE CHOOSE a \in pool : TRUE
      content == values[CHOOSE n \in names : TRUE].d
  IN  IF names = {} THEN [values |-> values, heap |-> h]
      ELSE [values |-> [n \in DOMAIN values |->
                          IF n \in names THEN U8Ref(p) ELSE values[n]],
            heap |-> IF pool = {} THEN Append(h, Cell(content, by, 0, NoProps))
                     ELSE [h EXCEPT ![p].bytes = content]]

(* the Uint8Array values of a fresh record are views of the ArrayBuffer   *)
(* allocated last                                                          *)
own_view(fields, i, values, h, by) ==
  [values |-> [n \in DOMAIN values |->
                 IF values[n].t = "bytes" /\ h # <<>> THEN U8Ref(Len(h)) ELSE values[n]],
   heap |-> h]

(* the Uint8Array values of a fresh record get their own ArrayBuffers *)
RECURSIVE own(_, _, _, _, _)
own(fields, i, values, h, by) ==
  IF i > Len(fields) THEN [values |-> values, heap |-> h]
  ELSE LET n == fields[i].name
       IN  IF n \in DOMAIN values /\ values[n].t = "bytes"
           THEN own(fields, i + 1, [values EXCEPT ![n] = U8Ref(Len(h) + 1)],
                    Append(h, Cell(values[n].d, by, 0, NoProps)), by)
           ELSE own(fields, i + 1, values, h, by)

(* S.from(buffer, offset), buffer the ArrayBuffer at address a or the      *)
(* Uint8Array over its bytes [byteOffset, byteOffset + byteLength)         *)
From(d, a, byteOffset, byteLength, offset) ==
  LET r == from(defs[d], [ab |-> heap[a].bytes, byteOffset |-> byteOffset,
                          byteLength |-> byteLength], offset)
      call == [NoCall EXCEPT !.op = "from", !.def = d, !.buf = a, !.offset = offset,
                             !.byteOffset = byteOffset, !.byteLength = byteLength,
                             !.calls = r.calls]
      o == own(defs[d].fields, 1, r.values, heap, "parse")
  IN  /\ IF r.ok
         THEN /\ heap' = o.heap
              /\ recs' = Append(recs, [struct |-> d, toBuffer |-> d, origin |-> d,
                                    cloneOf |-> 0, values |-> o.values])
              /\ ret' = [call EXCEPT !.rec = Len(recs) + 1]
         ELSE /\ UNCHANGED <<heap, recs>>
              /\ ret' = [call EXCEPT !.ok = FALSE, !.err = r.err]
      /\ UNCHANGED defs

(* the spread alone: the clone keeps the arrays of the original *)
copyArrays_shallow(fields, i, values, h) == [values |-> values, heap |-> h]

(* the deep copy of $clone: new Uint8Array(value) for every Uint8Array *)
RECURSIVE copyArrays(_, _, _, _)
copyArrays(fields, i, values, h) ==
  IF i > Len(fields) THEN [values |-> values, heap |-> h]
  ELSE LET n == fields[i].name
       IN  IF n \in DOMAIN values /\ values[n].t = "Uint8Array"
           THEN copyArrays(fields, i + 1, [values EXCEPT ![n] = U8Ref(Len(h) + 1)],
                           Append(h, Cell(h[values[n].d[1]].bytes, "clone", 0, NoProps)))
           ELSE copyArrays(fields, i + 1, values, h)

(* r.$clone() *)
Clone(r) ==
  LET this == recs[r]
      c == copyArrays(defs[this.struct].fields, 1, this.values, heap)
  IN  /\ heap' = c.heap
      /\ recs' = Append(recs, [struct |-> this.struct, toBuffer |-> this.toBuffer,
                               origin |-> this.origin, cloneOf |-> r,
                               values |-> c.values])
      /\ ret' = [NoCall EXCEPT !.op = "clone", !.src = r, !.rec = Len(recs) + 1]
      /\ UNCHANGED defs

(* r[name] = value, by the holder of the record, value a primitive *)
Assign(r, name, value) ==
  /\ recs' = [recs EXCEPT ![r].values[name] = value]
  /\ ret' = [NoCall EXCEPT !.op = "assign", !.rec = r, !.field = name]
  /\ UNCHANGED <<defs, heap>>

(* r[name][i] = b, an in-place write to a byte-array field *)
WriteByte(r, name, i, b) ==
  /\ recs[r].values[name].t = "Uint8Array"
  /\ i < Len(heap[recs[r].values[name].d[1]].bytes)
  /\ heap' = [heap EXCEPT ![recs[r].values[name].d[1]].bytes[i + 1] = b]
  /\ ret' = [NoCall EXCEPT !.op = "write", !.rec = r, !.field = name, !.offset = i]
  /\ UNCHANGED <<defs, recs>>

(* fields[name] = fieldType, on the mapping the caller passed to struct   *)
(* and the definition kept, for the i-th key                               *)
SetField(d, i, fieldType) ==
  /\ defs' = [defs EXCEPT ![d].fields[i].type = fieldType]
  /\ ret' = [NoCall EXCEPT !.op = "setField", !.def = d, !.field = defs[d].fields[i].name]
  /\ UNCHANGED <<heap, recs>>

(* delete fields[name], for the i-th key *)
DeleteField(d, i) ==
  /\ defs' = [defs EXCEPT ![d].fields =
                 [k \in 1..(Len(@) - 1) |-> IF k < i THEN @[k] ELSE @[k + 1]]]
  /\ ret' = [NoCall EXCEPT !.op = "deleteField", !.def = d,
                           !.field = defs[d].fields[i].name]
  /\ UNCHANGED <<heap, recs>>

(* S.size = v, on the definition returned by struct *)
AssignSize(d, v) ==
  /\ defs' = [defs EXCEPT ![d].size = v]
  /\ ret' = [NoCall EXCEPT !.op = "assignSize", !.def = d]
  /\ UNCHANGED <<heap, recs>>

(* new Uint8Array(buffer)[i] = b, by the holder of the ArrayBuffer at a *)
Poke(a, i, b) ==
  /\ i < Len(heap[a].bytes)
  /\ heap' = [heap EXCEPT ![a].bytes[i + 1] = b]
  /\ ret' = [NoCall EXCEPT !.op = "poke", !.buf = a, !.offset = i]
  /\ UNCHANGED <<defs, recs>>

(* $toBuffer looks the definition up by its name *)
toBufferDef_byName(r) ==
  CHOOSE d \in 1..Len(defs) :
    /\ defs[d].name = defs[recs[r].toBuffer].name
    /\ \A e \in 1..Len(defs) : defs[e].name = defs[d].name => d <= e

(* the structDef that the $toBuffer function of record r closes over *)
toBufferDef(r) == recs[r].toBuffer

(* r.$toBuffer(): structDef.to(this); the ArrayBuffer it returns goes to   *)
(* the caller (ret.ab) and is not read again                               *)
ToBuffer(r) ==
  LET d == toBufferDef(r)
      t == to(defs[d], recs[r].values, Contents(heap))
      call == [NoCall EXCEPT !.op = "toBuffer", !.def = d, !.rec = r, !.calls = t.calls]
  IN  /\ IF t.ok
         THEN ret' = [call EXCEPT !.ab = t.ab]
         ELSE ret' = [call EXCEPT !.ok = FALSE, !.err = t.err]
      /\ UNCHANGED <<defs, heap, recs>>

---------------------------------------------------------------------------
(* Inputs *)

MaxFields == 2

MaxTextLen == 2

MaxOffset == 1

MaxBufLen == 2

MaxDefs == 2

MaxRecs == 3

MaxBuffers == 2

MaxCallers == 2

FieldNames == <<"magic", "version", "flags", "count", "name", "code">>

Entries(types) == [i \in 1..Len(types) |-> [name |-> FieldNames[i], type |-> types[i]]]

Options == {<<>>, <<TRUE>>, <<FALSE>>}

(* every built-in constructor, with valid and invalid sizes *)
CodecTypes ==
  {bytes(0), bytes(2), uint8, uint16, uint32, uint64, int8, int16, int32, int64,
   cstring(1), cstring(4), string(4), custom(1), custom(-1)}

(* "A", U+0000, U+00E9 (two bytes), U+FEFF (three bytes) *)
Alphabet == {65, 0, 233, 65279}

Texts == {Str(cps) : cps \in SeqsUpTo(Alphabet, MaxTextLen)}

ByteArrays(n) ==
  {ByteLit([i \in 1..k |-> 64 + i]) : k \in {j \in {n - 1, n, n + 1} : j >= 0}}
    \cup {ByteLit([i \in 1..n |-> 255]) : k \in {j \in {n} : j >= 0}}

MaxUnsigned(w, type) == Numeric(type, FALSE, [i \in 1..w |-> 255])

MaxSigned(w, type) == Numeric(type, FALSE, [i \in 1..w |-> IF i = w THEN 127 ELSE 255])

MinSigned(w, type) == Numeric(type, TRUE, [i \in 1..w |-> IF i = w THEN 128 ELSE 0])

Pow256(w, type) == Numeric(type, FALSE, [i \in 1..(w + 1) |-> IF i = w + 1 THEN 1 ELSE 0])

mk(type, i) == IF type = "bigint" THEN Big(i) ELSE Num(i)

(* values of the field's TypeScript type: in range, at the limits of the   *)
(* range and just outside it                                               *)
Samples(fieldType) ==
  LET w == fieldType.size
      ty == NumType(fieldType.kind)
  IN  CASE fieldType.kind = "bytes" -> ByteArrays(w)
        [] fieldType.kind \in {"cstring", "string"} -> Texts
        [] fieldType.kind = "custom" -> {Null}
        [] Signed(fieldType.kind) ->
             {mk(ty, 7), mk(ty, -2), MinSigned(w, ty), MaxSigned(w, ty),
              Numeric(ty, FALSE, [i \in 1..w |-> IF i = w THEN 128 ELSE 0])}
        [] OTHER ->
             {mk(ty, 0), mk(ty, IF w = 1 THEN 7 ELSE 12345), MaxUnsigned(w, ty),
              Pow256(w, ty)}

(* the plain objects a caller can pass to to: each declared key either     *)
(* present with a sample value or absent                                   *)
RECURSIVE Records(_, _)
Records(fields, i) ==
  IF i > Len(fields) THEN {NoProps}
  ELSE LET rest == Records(fields, i + 1)
           n == fields[i].name
       IN  rest \cup
           {[k \in DOMAIN r \cup {n} |-> IF k = n THEN v ELSE r[k]] :
              r \in rest, v \in Samples(fields[i].type)}

Buffers == SeqsUpTo({0, 65, 255}, MaxBufLen)

(* the whole ArrayBuffer, or a Uint8Array over it that starts one byte in *)
Windows(a) ==
  {<<0, Len(heap[a].bytes)>>} \cup
  {<<1, Len(heap[a].bytes) - 1>> : k \in {j \in {Len(heap[a].bytes)} : j >= 1}}

---------------------------------------------------------------------------
(* One definition, one buffer, one decode: the codec on its own.           *)
(* layouts is the set of field-type lists the definition is drawn from.    *)

NextCodec(layouts) ==
  \/ /\ defs = <<>>
     /\ \E types \in layouts, options \in Options :
          Struct("Header", Entries(types), options)
  \/ /\ defs # <<>> /\ heap = <<>>
     /\ \E values \in Records(defs[1].fields, 1) : To(1, values)
  \/ /\ defs # <<>> /\ heap = <<>>
     /\ \E bs \in Buffers : Alloc(bs)
  \/ /\ defs # <<>> /\ heap # <<>> /\ recs = <<>> /\ ret.op # "from"
     /\ \E w \in Windows(1), offset \in -1..MaxOffset : From(1, 1, w[1], w[2], offset)

SpecCodec == Init /\ [][NextCodec(SeqsUpTo(CodecTypes, MaxFields))]_vars

(* a field of one of the types, before or after up to MaxFields - 1 fields *)
(* of the filler type                                                      *)
Around(filler, types) ==
  {p \o <<t>> : p \in SeqsUpTo({filler}, MaxFields - 1), t \in types}
    \cup {<<t>> \o p : p \in SeqsUpTo({filler}, MaxFields - 1), t \in types}

(* structs of multi-byte integer fields *)
IntLayouts == Around(uint16, {uint16, uint32, uint64, int16, int32, int64})

SpecInt == Init /\ [][NextCodec(IntLayouts)]_vars

(* structs with a null-terminated text field *)
TextLayouts == Around(uint8, {cstring(1), cstring(2), cstring(4)})

SpecText == Init /\ [][NextCodec(TextLayouts)]_vars

(* structs of one or two small fields, so that a definition fits into a    *)
(* Uint8Array that starts one byte into its ArrayBuffer                    *)
ViewLayouts == Around(uint8, {bytes(1), uint8, int8, uint16, cstring(1), string(1)})

SpecView == Init /\ [][NextCodec(ViewLayouts)]_vars

(* Records and their clones: definitions of the shape of the test's       *)
(* Header, big- and little-endian; a record is decoded, cloned, assigned   *)
(* to, written in place and re-encoded.                                    *)

ObjLayouts == {<<bytes(2), uint16>>}

(* the values of the test: magic "AB", version 123, then version 456 and  *)
(* "X" written over the first byte of magic                                *)
ObjRecords == {[magic |-> ByteLit(<<65, 66>>), version |-> Num(123)]}

ObjAssigned(fieldType) == IF fieldType.kind = "bytes" THEN {} ELSE {Num(456)}

Next ==
  \/ /\ Len(defs) < MaxDefs /\ heap = <<>>
     /\ \E types \in ObjLayouts, options \in {<<>>, <<TRUE>>} :
          Struct("Header", Entries(types), options)
  \/ /\ heap = <<>>
     /\ \E d \in 1..Len(defs) : \E values \in ObjRecords : To(d, values)
  \/ /\ recs = <<>>
     /\ \E a \in 1..Len(heap) :
          heap[a].by = "to" /\ From(heap[a].def, a, 0, Len(heap[a].bytes), 0)
  \/ /\ Len(recs) < MaxRecs
     /\ \E r \in 1..Len(recs) : Clone(r)
  \/ \E r \in 1..Len(recs) : \E i \in 1..Len(defs[recs[r].struct].fields) :
          \E value \in ObjAssigned(defs[recs[r].struct].fields[i].type) :
            Assign(r, defs[recs[r].struct].fields[i].name, value)
  \/ \E r \in 1..Len(recs) : \E n \in DOMAIN recs[r].values : WriteByte(r, n, 0, 88)
  \/ \E r \in 1..Len(recs) : ToBuffer(r)

Spec == Init /\ [][Next]_vars

(* One definition shared by several callers: each caller encodes its own  *)
(* record, decodes its buffer, clones, writes and re-encodes its records,  *)
(* the calls of the callers interleaved in every order; there are as many  *)
(* buffers returned by to, and as many records, as callers.                *)

SharedRecords ==
  {[magic |-> ByteLit(<<65, 66>>), version |-> Num(123)],
   [magic |-> ByteLit(<<67, 68>>), version |-> Num(456)]}

NextShared ==
  \/ /\ defs = <<>>
     /\ \E types \in ObjLayouts, options \in {<<>>, <<TRUE>>} :
          Struct("Header", Entries(types), options)
  \/ /\ defs # <<>>
     /\ Cardinality({a \in DOMAIN heap : heap[a].by = "to"}) < MaxCallers
     /\ \E values \in SharedRecords : To(1, values)
  \/ /\ Len(recs) < MaxCallers
     /\ \E a \in DOMAIN heap :
          heap[a].by = "to" /\ From(1, a, 0, Len(heap[a].bytes), 0)
  \/ /\ Len(recs) < MaxCallers
     /\ \E r \in DOMAIN recs : Clone(r)
  \/ \E r \in DOMAIN recs : \E n \in DOMAIN recs[r].values : WriteByte(r, n, 0, 88)
  \/ \E r \in DOMAIN recs : ToBuffer(r)

SpecShared == Init /\ [][NextShared]_vars

(* A definition in the hands of its caller: the caller replaces and        *)
(* deletes entries of the fields mapping and assigns to size, and goes on  *)
(* to encode and decode.                                                   *)

DefLayouts == {<<uint8, uint16>>}

DefRecords == {[magic |-> Num(7), version |-> Num(12345)]}

NextDef ==
  \/ /\ defs = <<>>
     /\ \E types \in DefLayouts, options \in {<<>>, <<TRUE>>} :
          Struct("Header", Entries(types), options)
  \/ \E d \in DOMAIN defs : \E i \in 1..Len(defs[d].fields) :
       \E fieldType \in {uint8, uint16} : SetField(d, i, fieldType)
  \/ \E d \in DOMAIN defs : \E i \in 1..Len(defs[d].fields) : DeleteField(d, i)
  \/ \E d \in DOMAIN defs : AssignSize(d, 0)
  \/ /\ Len(heap) < MaxBuffers
     /\ \E d \in DOMAIN defs : \E values \in DefRecords : To(d, values)
  \/ /\ Len(recs) < MaxBuffers
     /\ \E d \in DOMAIN defs : \E a \in DOMAIN heap :
          From(d, a, 0, Len(heap[a].bytes), 0)

SpecDef == Init /\ [][NextDef]_vars

(* Buffers and the record decoded from them: one definition, a buffer      *)
(* returned by to or filled by the caller, the record decoded from it at   *)
(* offset 0 or further in, buffers re-encoded from the record, and writes  *)
(* by the caller to the buffers and to the record's byte array.            *)

AliasBuffers == {<<0, 65, 66, 0, 123>>}

IsBuffer(a) == heap[a].by \in {"to", "caller"}

NextAlias ==
  \/ /\ defs = <<>>
     /\ \E types \in ObjLayouts, options \in {<<>>, <<TRUE>>} :
          Struct("Header", Entries(types), options)
  \/ /\ defs # <<>> /\ heap = <<>>
     /\ \E values \in ObjRecords : To(1, values)
  \/ /\ defs # <<>> /\ heap = <<>>
     /\ \E bs \in AliasBuffers : Alloc(bs)
  \/ /\ heap # <<>> /\ recs = <<>> /\ ret.op # "from"
     /\ \E offset \in 0..MaxOffset : From(1, 1, 0, Len(heap[1].bytes), offset)
  \/ \E a \in DOMAIN heap : \E i \in 0..(Len(heap[a].bytes) - 1) :
       IsBuffer(a) /\ Poke(a, i, 88)
  \/ \E r \in DOMAIN recs : \E n \in DOMAIN recs[r].values : WriteByte(r, n, 0, 88)
  \/ /\ Cardinality({a \in DOMAIN heap : IsBuffer(a)}) < MaxBuffers
     /\ \E r \in DOMAIN recs : To(toBufferDef(r), recs[r].values)

SpecAlias == Init /\ [][NextAlias]_vars

---------------------------------------------------------------------------
(* Vocabulary of the properties *)

RECURSIVE SumSizes(_, _)
SumSizes(fields, n) == IF n = 0 THEN 0 ELSE SumSizes(fields, n - 1) + fields[n].type.size

Names(def) == {def.fields[i].name : i \in 1..Len(def.fields)}

OffsetOf(def, i) == def.fieldOffsets[def.fields[i].name]

SizeOf(def, i) == def.fields[i].type.size

(* a record's values with every Uint8Array replaced by its elements *)
Plain(values, h) ==
  [n \in DOMAIN values |->
     IF values[n].t = "Uint8Array" THEN ByteLit(h[values[n].d[1]].bytes) ELSE values[n]]

InRange(v, fieldType) ==
  LET w == fieldType.size
  IN  /\ v.t = NumType(fieldType.kind)
      /\ IF Signed(fieldType.kind)
         THEN \/ Len(v.d) < w
              \/ Len(v.d) = w /\ v.d[w] < 128
              \/ v = MinSigned(w, v.t)
         ELSE ~v.neg /\ Len(v.d) <= w

(* representable without narrowing by the field type *)
Fits(v, fieldType) ==
  CASE fieldType.kind = "bytes" -> v.t = "bytes" /\ Len(v.d) = fieldType.size
    [] fieldType.kind = "string" -> v.t = "string" /\ Len(TextEncode(v)) = fieldType.size
    [] fieldType.kind = "cstring" ->
         /\ v.t = "string"
         /\ Len(TextEncode(v)) <= fieldType.size - 1
         /\ \A i \in 1..Len(v.d) : v.d[i] # 0
    [] fieldType.kind = "custom" -> v = Null
    [] OTHER -> InRange(v, fieldType)

Representable(def, values) ==
  /\ DOMAIN values = Names(def)
  /\ \A i \in 1..Len(def.fields) : Fits(values[def.fields[i].name], def.fields[i].type)

(* the bytes of field i in the buffer at address a *)
Slot(def, i, a) == SubSeq(heap[a].bytes, OffsetOf(def, i) + 1, OffsetOf(def, i) + SizeOf(def, i))

(* built-in field types only, each of a positive size *)
BuiltIn(def) ==
  /\ Len(def.fields) > 0
  /\ \A i \in 1..Len(def.fields) :
       SizeOf(def, i) > 0 /\ def.fields[i].type.kind # "custom"

(* the last call is S.from(S.to(r)) on the whole returned buffer *)
DecodedEncoded ==
  /\ ret.op = "from"
  /\ heap[ret.buf].by = "to"
  /\ heap[ret.buf].def = ret.def
  /\ ret.offset = 0 /\ ret.byteOffset = 0

---------------------------------------------------------------------------
(* C1: for every definition built by struct, size is the sum of the field  *)
(* sizes, each offset is the sum of the sizes of the preceding fields,     *)
(* offsets strictly increase, slots neither overlap nor leave gaps, and    *)
(* offset(last) + size(last) = size.                                       *)
LayoutInvariant ==
  \A d \in 1..Len(defs) :
    LET def == defs[d]
        n == Len(def.fields)
    IN  /\ def.size = SumSizes(def.fields, n)
        /\ \A i \in 1..n : OffsetOf(def, i) = SumSizes(def.fields, i - 1)
        /\ \A i, j \in 1..n : i < j => OffsetOf(def, i) < OffsetOf(def, j)
        /\ \A i, j \in 1..n : i < j => OffsetOf(def, i) + SizeOf(def, i) <= OffsetOf(def, j)
        /\ n > 0 => OffsetOf(def, n) + SizeOf(def, n) = def.size

(* C2: S.from(S.to(r)) equals r field by field for every record r whose    *)
(* fields are representable without narrowing, for both byte orders.       *)
RoundTrip ==
  (DecodedEncoded /\ Representable(defs[ret.def], heap[ret.buf].values))
    => /\ ret.ok
       /\ Plain(recs[ret.rec].values, heap) = heap[ret.buf].values

(* C3: from fails with an out-of-bounds error and returns no record when   *)
(* offset < 0 or offset + size exceeds the buffer length.  Stated for the  *)
(* definitions of built-in field types with positive sizes, and without    *)
(* the claim's second half (that no parse is invoked before the failure).  *)
FromRejectsOutOfBounds ==
  (/\ ret.op = "from"
   /\ BuiltIn(defs[ret.def])
   /\ (ret.offset < 0 \/ ret.offset + defs[ret.def].size > ret.byteLength))
    => /\ ~ret.ok
       /\ ret.err = "RangeError"
       /\ ret.rec = 0

(* C4: to fails and returns no buffer when the record lacks the key of a   *)
(* declared field.  Stated for the definitions of built-in field types     *)
(* with positive sizes, and without the claim's second half (that no       *)
(* write is invoked before the failure).                                   *)
ToRejectsMissingField ==
  (/\ ret.op = "to"
   /\ BuiltIn(defs[ret.def])
   /\ \E n \in Names(defs[ret.def]) : n \notin DOMAIN ret.values)
    => /\ ~ret.ok
       /\ ret.buf = 0

(* C5: struct fails when a field type reports a size that is not a         *)
(* positive integer, and succeeds when every size is a positive integer.   *)
ConstructionValidatesSizes ==
  ret.op = "struct"
    => (ret.ok <=> \A i \in 1..Len(defs[ret.def].fields) : SizeOf(defs[ret.def], i) > 0)

(* C10: for a fixed-length(n) text field, to writes the first min(len, n)  *)
(* bytes of the encoding, then zero bytes up to n, and never fails on long *)
(* text; from(to(r)) returns, for text shorter than n, the text followed   *)
(* by n - len zero characters.                                             *)
FixedText ==
  LET def == defs[ret.def]
      given == IF ret.op = "to" THEN ret.values ELSE heap[ret.buf].values
      texts == {i \in 1..Len(def.fields) : def.fields[i].type.kind = "string"}
      enc(i) == TextEncode(given[def.fields[i].name])
      kept(i) == Min(Len(enc(i)), SizeOf(def, i))
  IN  /\ (ret.op = "to" /\ BuiltIn(def) /\ DOMAIN given = Names(def))
           => /\ ret.ok
              /\ \A i \in texts :
                   Slot(def, i, ret.buf) = Take(enc(i), kept(i)) \o Zeros(SizeOf(def, i) - kept(i))
      /\ (DecodedEncoded /\ BuiltIn(def) /\ DOMAIN given = Names(def))
           => /\ ret.ok
              /\ \A i \in texts :
                   Len(enc(i)) < SizeOf(def, i)
                     => recs[ret.rec].values[def.fields[i].name]
                          = Str(given[def.fields[i].name].d \o Zeros(SizeOf(def, i) - Len(enc(i))))

---------------------------------------------------------------------------
(* C8: every multi-byte integer field is written by to and read by from in *)
(* the byte order fixed by the littleEndian option, which defaults to      *)
(* false: with littleEndian the least significant byte is at the field's   *)
(* offset, otherwise the most significant byte is; a little-endian uint32  *)
(* holding 12345 encodes to 0x39, 0x30, 0, 0.                              *)

LowByte(v) == IF v.d = <<>> THEN 0 ELSE IF v.neg THEN (256 - v.d[1]) % 256 ELSE v.d[1]

(* what the most significant of w bytes must be: the top digit of a        *)
(* non-negative value, the sign bit set for a negative one                 *)
HighByteOk(b, v, w) ==
  IF v.neg THEN b >= 128 ELSE b = (IF Len(v.d) = w THEN v.d[w] ELSE 0)

InOrder(bs, v, littleEndian) ==
  LET w == Len(bs)
  IN  IF littleEndian
      THEN bs[1] = LowByte(v) /\ HighByteOk(bs[w], v, w)
      ELSE bs[w] = LowByte(v) /\ HighByteOk(bs[1], v, w)

Endianness ==
  /\ ret.op = "struct" => defs[ret.def].littleEndian = (ret.options = <<TRUE>>)
  /\ (ret.op = "to" /\ ret.ok)
       => \A i \in 1..Len(defs[ret.def].fields) :
            LET def == defs[ret.def]
                v == Prop(ret.values, def.fields[i].name)
            IN  (def.fields[i].type.kind \in IntKinds /\ SizeOf(def, i) > 1
                 /\ InRange(v, def.fields[i].type))
                  => /\ InOrder(Slot(def, i, ret.buf), v, def.littleEndian)
                     /\ (def.littleEndian /\ v = Num(12345) /\ SizeOf(def, i) = 4)
                          => Slot(def, i, ret.buf) = <<57, 48, 0, 0>>
  /\ (ret.op = "from" /\ ret.ok)
       => \A i \in 1..Len(defs[ret.def].fields) :
            LET def == defs[ret.def]
                at == ret.byteOffset + ret.offset + OffsetOf(def, i)
            IN  (def.fields[i].type.kind \in IntKinds /\ SizeOf(def, i) > 1)
                  => /\ InRange(Prop(recs[ret.rec].values, def.fields[i].name),
                                def.fields[i].type)
                     /\ InOrder(SubSeq(heap[ret.buf].bytes, at + 1, at + SizeOf(def, i)),
                                Prop(recs[ret.rec].values, def.fields[i].name),
                                def.littleEndian)

(* a little-endian uint32 field holding 12345 has been encoded *)
EndiannessWitness ==
  /\ ret.op = "to" /\ ret.ok
  /\ defs[ret.def].littleEndian
  /\ \E i \in 1..Len(defs[ret.def].fields) :
       /\ defs[ret.def].fields[i].type = uint32
       /\ Prop(ret.values, defs[ret.def].fields[i].name) = Num(12345)
       /\ Slot(defs[ret.def], i, ret.buf) = <<57, 48, 0, 0>>

---------------------------------------------------------------------------
(* C9: null-terminated truncation *)

RECURSIVE UpToZero(_)
UpToZero(bs) ==
  IF bs = <<>> \/ Head(bs) = 0 THEN <<>> ELSE <<Head(bs)>> \o UpToZero(Tail(bs))

(* the characters before the first U+0000 that fit whole into budget       *)
(* bytes, then U+FFFD if the next character is cut by the budget           *)
RECURSIVE WholeChars(_, _)
WholeChars(cps, budget) ==
  IF cps = <<>> \/ Head(cps) = 0 THEN <<>>
  ELSE IF Len(Utf8(Head(cps))) <= budget
       THEN <<Head(cps)>> \o WholeChars(Tail(cps), budget - Len(Utf8(Head(cps))))
  ELSE IF budget > 0 THEN <<ReplacementChar>> ELSE <<>>

TruncatedText(s, n) ==
  LET kept == WholeChars(s.d, n - 1)
  IN  Str(IF kept # <<>> /\ Head(kept) = 65279 THEN Tail(kept) ELSE kept)

(* the null-terminated fields of the last call's definition that were      *)
(* given text longer than n - 1 bytes                                      *)
LongTexts ==
  LET def == defs[ret.def]
      given == IF ret.op = "to" THEN ret.values ELSE heap[ret.buf].values
  IN  {i \in 1..Len(def.fields) :
         /\ def.fields[i].type.kind = "cstring"
         /\ Len(TextEncode(Prop(given, def.fields[i].name))) > SizeOf(def, i) - 1}

(* C9 as claimed: for text longer than n - 1 bytes, from(to(r)) yields     *)
(* exactly the first n - 1 bytes of the encoding (up to the first zero     *)
(* byte), the byte after the written text is zero, and the result holds no *)
(* zero byte.                                                              *)
CStringYieldsFirstBytes ==
  LET def == defs[ret.def]
      given == heap[ret.buf].values
  IN  (DecodedEncoded /\ BuiltIn(def) /\ DOMAIN given = Names(def))
        => /\ ret.ok
           /\ \A i \in LongTexts :
                LET decoded == recs[ret.rec].values[def.fields[i].name]
                    enc == TextEncode(given[def.fields[i].name])
                IN  /\ TextEncode(decoded) = UpToZero(Take(enc, SizeOf(def, i) - 1))
                    /\ Slot(def, i, ret.buf)[SizeOf(def, i)] = 0
                    /\ \A k \in 1..Len(decoded.d) : decoded.d[k] # 0

(* C9 as amended: for text longer than n - 1 bytes, to writes the first    *)
(* n - 1 bytes of the encoding and a zero byte right after them, and       *)
(* from(to(r)) yields the characters before the first U+0000 that fit      *)
(* whole into n - 1 bytes, without a leading U+FEFF, followed by U+FFFD    *)
(* when the cut falls inside a character; the result holds no U+0000.      *)
CStringTruncation ==
  LET def == defs[ret.def]
      given == IF ret.op = "to" THEN ret.values ELSE heap[ret.buf].values
      enc(i) == TextEncode(given[def.fields[i].name])
  IN  /\ (ret.op = "to" /\ BuiltIn(def) /\ DOMAIN given = Names(def))
           => /\ ret.ok
              /\ \A i \in LongTexts :
                   Slot(def, i, ret.buf) = Take(enc(i), SizeOf(def, i) - 1) \o <<0>>
      /\ (DecodedEncoded /\ BuiltIn(def) /\ DOMAIN given = Names(def))
           => /\ ret.ok
              /\ \A i \in LongTexts :
                   LET decoded == recs[ret.rec].values[def.fields[i].name]
                   IN  /\ decoded = TruncatedText(given[def.fields[i].name], SizeOf(def, i))
                       /\ \A k \in 1..Len(decoded.d) : decoded.d[k] # 0

(* text cut inside a character has been encoded and decoded *)
CStringTruncationWitness ==
  /\ DecodedEncoded /\ ret.ok
  /\ DOMAIN heap[ret.buf].values = Names(defs[ret.def])
  /\ \E i \in LongTexts :
       LET decoded == recs[ret.rec].values[defs[ret.def].fields[i].name]
       IN  /\ SizeOf(defs[ret.def], i) = 4
           /\ Len(decoded.d) = 2
           /\ decoded.d[2] = ReplacementChar

(* C6: a $clone step yields a new record equal to its source field by      *)
(* field, byte arrays compared by their elements; a field assignment or an *)
(* in-place byte write on one record leaves every field of every other     *)
(* record unchanged, so writes on a clone never show in its original nor   *)
(* writes on the original in its clones.                                   *)
CloneIsolation ==
  [][/\ ret'.op = "clone"
          => /\ ret'.rec # ret'.src
             /\ ret'.rec \notin DOMAIN recs
             /\ Plain(recs'[ret'.rec].values, heap')
                  = Plain(recs[ret'.src].values, heap)
             /\ \A y \in DOMAIN recs :
                  Plain(recs'[y].values, heap')
                    = Plain(recs[y].values, heap)
     /\ ret'.op \in {"assign", "write"}
          => \A y \in DOMAIN recs :
               y # ret'.rec
                 => Plain(recs'[y].values, heap')
                      = Plain(recs[y].values, heap)]_vars

(* a byte of a clone's array has been written in place and the clone now   *)
(* differs from its original in that field only                            *)
CloneIsolationWitness ==
  /\ ret.op = "write"
  /\ recs[ret.rec].cloneOf # 0
  /\ LET c == Plain(recs[ret.rec].values, heap)
         r == Plain(recs[recs[ret.rec].cloneOf].values, heap)
     IN  /\ c.magic = ByteLit(<<88, 66>>)
         /\ r.magic = ByteLit(<<65, 66>>)
         /\ c.version = r.version

(* C7: every record carries as $struct the definition whose from made the  *)
(* record at the head of its chain of clones, and $toBuffer returns what   *)
(* to of that definition returns for the record's current field values.    *)
ReEncode ==
  /\ \A x \in DOMAIN recs :
       /\ recs[x].struct = recs[x].origin
       /\ recs[x].cloneOf # 0 => recs[x].origin = recs[recs[x].cloneOf].origin
  /\ ret.op = "toBuffer"
       => LET x == recs[ret.rec]
              t == to(defs[x.origin], x.values, Contents(heap))
          IN  /\ ret.ok = t.ok
              /\ ret.ok => ret.ab = t.ab

(* the clone of a clone of a record made by the second of two definitions  *)
(* of the same name and shape was assigned to and then re-encoded          *)
ReEncodeWitness ==
  /\ ret.op = "toBuffer" /\ ret.ok
  /\ LET x == recs[ret.rec]
     IN  /\ x.cloneOf # 0
         /\ recs[x.cloneOf].cloneOf # 0
         /\ x.origin = 2
         /\ defs[1].name = defs[2].name
         /\ defs[1].littleEndian # defs[2].littleEndian
         /\ x.values.version = Num(456)
         /\ recs[x.cloneOf].values.version = Num(123)

---------------------------------------------------------------------------
(* C11: from decodes every field from the bytes of the given buffer at     *)
(* [offset + fieldOffsets[field], offset + fieldOffsets[field] + size):    *)
(* for built-in field types and a definition that lies inside the given    *)
(* ArrayBuffer or Uint8Array, S.from(buffer, k) succeeds and equals S.from *)
(* of a standalone copy of the bytes buffer[k .. k + S.size).              *)
DecodesGivenBytes ==
  LET def == defs[ret.def]
      first == ret.byteOffset + ret.offset
      copy == SubSeq(heap[ret.buf].bytes, first + 1, first + def.size)
      alone == from(def, [ab |-> copy, byteOffset |-> 0, byteLength |-> def.size], 0)
  IN  (/\ ret.op = "from"
       /\ BuiltIn(def)
       /\ ret.offset >= 0
       /\ ret.offset + def.size <= ret.byteLength)
        => /\ ret.ok
           /\ alone.ok
           /\ Plain(recs[ret.rec].values, heap) = alone.values

---------------------------------------------------------------------------
(* C12: from leaves every buffer as it was; a write to a buffer changes no *)
(* field of any record and no other buffer; an in-place write to a byte    *)
(* array of a record changes no buffer; every to, $toBuffer included,      *)
(* returns an ArrayBuffer of exactly S.size bytes at a new address that no *)
(* record refers to, and leaves every earlier buffer and every record as   *)
(* it was.                                                                 *)
NoAliasing ==
  [][/\ ret'.op = "from" => \A a \in DOMAIN heap : heap'[a] = heap[a]
     /\ ret'.op = "poke"
          => /\ \A r \in DOMAIN recs :
                  Plain(recs'[r].values, heap') = Plain(recs[r].values, heap)
             /\ \A a \in DOMAIN heap : a # ret'.buf => heap'[a] = heap[a]
     /\ ret'.op = "write"
          => \A a \in DOMAIN heap : IsBuffer(a) => heap'[a] = heap[a]
     /\ (ret'.op = "to" /\ ret'.ok)
          => /\ ret'.buf \notin DOMAIN heap
             /\ Len(heap'[ret'.buf].bytes) = defs[ret'.def].size
             /\ \A a \in DOMAIN heap : heap'[a] = heap[a]
             /\ recs' = recs
             /\ \A r \in DOMAIN recs : \A n \in DOMAIN recs[r].values :
                  recs[r].values[n] # U8Ref(ret'.buf)]_vars

(* the buffer the record was decoded from has been overwritten at the      *)
(* bytes of magic, after the record's own array was written in place and   *)
(* the record was re-encoded into a further buffer                         *)
NoAliasingWitness ==
  /\ ret.op = "poke" /\ ret.buf = 1
  /\ recs # <<>>
  /\ heap[1].by = "to"
  /\ heap[1].bytes[1] = 88 /\ heap[1].bytes[2] = 88
  /\ Plain(recs[1].values, heap).magic = ByteLit(<<88, 66>>)
  /\ \E a \in DOMAIN heap :
       a > 1 /\ IsBuffer(a) /\ heap[a].bytes[1] = 88 /\ heap[a].bytes[2] = 66

---------------------------------------------------------------------------
(* C13: once struct has returned, no step changes the size, the fields and *)
(* their order, the field offsets or the endianness of a definition, and   *)
(* from and to of the definition return after the step what they returned  *)
(* before it for the same buffer and for the same record.                  *)
DefinitionImmutable ==
  [][\A d \in DOMAIN defs :
       /\ defs'[d].size = defs[d].size
       /\ defs'[d].fields = defs[d].fields
       /\ defs'[d].fieldOffsets = defs[d].fieldOffsets
       /\ defs'[d].littleEndian = defs[d].littleEndian
       /\ \A values \in DefRecords :
            to(defs'[d], values, Contents(heap)) = to(defs[d], values, Contents(heap))
       /\ \A a \in DOMAIN heap :
            LET buffer == [ab |-> heap[a].bytes, byteOffset |-> 0,
                           byteLength |-> Len(heap[a].bytes)]
            IN  from(defs'[d], buffer, 0) = from(defs[d], buffer, 0)]_vars

---------------------------------------------------------------------------
(* C14: a call of from, to, $toBuffer or $clone changes no definition, no  *)
(* buffer and no record that existed before it, and what it returns is     *)
(* what the call returns on its own arguments alone, whatever calls of     *)
(* other callers on the same definition came before it.                    *)
SharingIsSafe ==
  [][ret'.op \in {"from", "to", "toBuffer", "clone"}
       => /\ defs' = defs
          /\ \A a \in DOMAIN heap : heap'[a] = heap[a]
          /\ \A r \in DOMAIN recs : recs'[r] = recs[r]
          /\ ret'.op = "from"
               => LET alone == from(defs[ret'.def],
                                    [ab |-> heap[ret'.buf].bytes,
                                     byteOffset |-> ret'.byteOffset,
                                     byteLength |-> ret'.byteLength], ret'.offset)
                  IN  /\ ret'.ok = alone.ok
                      /\ ret'.ok => /\ ret'.rec \notin DOMAIN recs
                                    /\ Plain(recs'[ret'.rec].values, heap') = alone.values
          /\ ret'.op = "to"
               => LET alone == to(defs[ret'.def], ret'.values, <<>>)
                  IN  /\ ret'.ok = alone.ok
                      /\ ret'.ok => /\ ret'.buf \notin DOMAIN heap
                                    /\ heap'[ret'.buf].bytes = alone.ab
          /\ ret'.op = "toBuffer"
               => LET alone == to(defs[recs[ret'.rec].origin],
                                  Plain(recs[ret'.rec].values, heap), <<>>)
                  IN  /\ ret'.ok = alone.ok
                      /\ ret'.ok => ret'.ab = alone.ab
          /\ ret'.op = "clone"
               => /\ ret'.rec \notin DOMAIN recs
                  /\ Plain(recs'[ret'.rec].values, heap')
                       = Plain(recs[ret'.src].values, heap)]_vars

(* two callers hold records decoded from their own buffers of different    *)
(* content, one record was written in place, and the record of the other   *)
(* caller has just been re-encoded                                         *)
SharingIsSafeWitness ==
  /\ ret.op = "toBuffer" /\ ret.ok
  /\ \E a, b \in DOMAIN heap :
       /\ a < b /\ heap[a].by = "to" /\ heap[b].by = "to"
       /\ heap[a].bytes # heap[b].bytes
  /\ \E x \in DOMAIN recs :
       /\ x # ret.rec
       /\ recs[x].cloneOf = 0 /\ recs[ret.rec].cloneOf = 0
       /\ Plain(recs[x].values, heap).magic = ByteLit(<<88, 68>>)
       /\ Plain(recs[ret.rec].values, heap).magic = ByteLit(<<65, 66>>)

====
